---- MODULE Spec2Model ----
(***************************************************************************)
(* A model of src/main.go: the interactive "add or update one variable of  *)
(* a .env file" utility.                                                   *)
(*                                                                         *)
(* Strings are sequences of Unicode code points (Go ranges over runes in   *)
(* every string function used here), so "yes" is <<121, 101, 115>>.  A     *)
(* line read from standard input keeps its terminator, as                  *)
(* bufio.Reader.ReadString('\n') returns it; at end of input the read      *)
(* returns the empty string and an error that the program ignores.         *)
(*                                                                         *)
(* Spec is one run of main().  Every read of standard input draws its line *)
(* when it happens: what a prompt's bufio.Reader (main.go:41, 90) buffered *)
(* beyond the line it returned is not part of Spec's state.  SpecInput is  *)
(* the same run reading a standard input of given lines through those      *)
(* readers, SpecRuns is main() run again and again on one file, SpecLoad   *)
(* is the load of every file of a bounded set.  SpecKey, SpecValue and     *)
(* SpecRoundTrip apply formatAndValidateKey, validateValue and the         *)
(* load/save pair to every argument of a bounded set.                      *)
(***************************************************************************)
EXTENDS Integers, Sequences, FiniteSets, TLC

VARIABLES
    pc,                \* position of main(): which step runs next
    fileExists,        \* whether .env exists
    file,              \* contents of .env (code points); <<>> when absent
    file0Exists,       \* fileExists when the run started (history)
    file0,             \* contents of .env when the run started (history)
    originalKeyInput,  \* main: originalKeyInput
    formattedKey,      \* main: formattedKey
    value,             \* main: value
    err,               \* main: err, "nil" when none; an IOError names the
                       \* store operation that returned it (load or save)
    loaded,            \* the mapping readEnvFileToMap returned (history)
    envMap,            \* AddOrUpdateEnvVarSecure: envMap
    currentValue,      \* AddOrUpdateEnvVarSecure: currentValue
    confirm,           \* the raw intent line read, <<-1>> when none was read
    entered,           \* the raw confirmation attempts read so far, in order
    attempts,          \* promptOverwriteConfirmation: attempts (loop counter)
    added,             \* result of AddOrUpdateEnvVarSecure
    updated,           \* result of AddOrUpdateEnvVarSecure
    writes,            \* number of calls of os.WriteFile in this run (history)
    rejections,        \* values rejected by the value prompt so far (history)
    fnPc,              \* pure-function specifications: the step reached
    fnIn,              \* pure-function specifications: the argument
    fnOut,             \* pure-function specifications: the result
    stdin,             \* SpecInput: bytes of standard input no Read of
                       \* os.Stdin has returned yet
    stdin0,            \* SpecInput: the lines written to standard input, each
                       \* as its bytes (history)
    rbuf,              \* SpecInput: bytes the current bufio.Reader holds
    consumed,          \* SpecInput: the lines (bytes) ReadString returned to
                       \* the prompts, in order (history)
    lastWritten,       \* SpecRuns: for each key an earlier invocation saved,
                       \* the value it saved last (history)
    saveFailed         \* SpecRuns: an earlier invocation's save failed
                       \* (history)

protoVars == <<pc, fileExists, file, file0Exists, file0, originalKeyInput,
               formattedKey, value, err, loaded, envMap, currentValue, confirm,
               entered, attempts, added, updated, writes, rejections>>
fnVars == <<fnPc, fnIn, fnOut>>
stdinVars == <<stdin, stdin0, rbuf, consumed>>
runVars == <<lastWritten, saveFailed>>
vars == <<protoVars, fnVars, stdinVars, runVars>>

---------------------------------------------------------------------------
(* Bounds of the model.                                                    *)

\* Number of lines of the .env file the run starts from.
MaxFileLines == 2
\* Length of the raw keys given to formatAndValidateKey in SpecKey.
MaxKeyLen == 4
\* Length of the raw values given to validateValue in SpecValue.
MaxValueLen == 3
\* Length (in code points) of the files of SpecRoundTrip.
MaxFileLen == 5
\* Number of lines standard input delivers in SpecInput.
MaxInputLines == 3
\* Rejections of the value prompt in one run (the prompt loop itself is unbounded).
MaxRejections == 1

---------------------------------------------------------------------------
(* Strings.                                                                *)

\* All sequences over alphabet a of length at most n.
RECURSIVE StringsUpTo(_, _)
StringsUpTo(a, n) ==
    IF n = 0 THEN { <<>> }
    ELSE LET shorter == StringsUpTo(a, n - 1)
         IN  shorter \cup { Append(s, c) : s \in { t \in shorter : Len(t) = n - 1 }, c \in a }

\* unicode.IsSpace, as used by strings.TrimSpace.
IsSpace(r) ==
    \/ r \in {9, 10, 11, 12, 13, 32, 133, 160, 5760}
    \/ r \in 8192..8202
    \/ r \in {8232, 8233, 8239, 8287, 12288}

\* strings.TrimSpace: drop leading and trailing white space.
TrimSpace(s) ==
    LET keep == { i \in 1..Len(s) : ~IsSpace(s[i]) }
    IN  IF keep = {} THEN <<>>
        ELSE LET lo == CHOOSE i \in keep : \A j \in keep : i <= j
                 hi == CHOOSE i \in keep : \A j \in keep : j <= i
             IN  SubSeq(s, lo, hi)

\* strings.ReplaceAll for one-rune old and new, as at main.go:14.
ReplaceAll(s, old, new) ==
    [i \in 1..Len(s) |-> IF s[i] = old THEN new ELSE s[i]]

\* unicode.ToUpper on the ranges the model's alphabets draw from
\* (ASCII, Latin-1, long s, dotless i, Cyrillic U+0430..U+045F).
ToUpperRune(r) ==
    IF r \in 97..122 THEN r - 32
    ELSE IF r = 181 THEN 924
    ELSE IF r \in 224..254 /\ r # 247 THEN r - 32
    ELSE IF r = 255 THEN 376
    ELSE IF r = 305 THEN 73
    ELSE IF r = 383 THEN 83
    ELSE IF r \in 1072..1103 THEN r - 32
    ELSE IF r \in 1104..1119 THEN r - 80
    ELSE r

\* unicode.ToLower on the same ranges.
ToLowerRune(r) ==
    IF r \in 65..90 THEN r + 32
    ELSE IF r \in 192..222 /\ r # 215 THEN r + 32
    ELSE IF r = 304 THEN 105
    ELSE IF r = 376 THEN 255
    ELSE IF r \in 1040..1071 THEN r + 32
    ELSE IF r \in 1024..1039 THEN r + 80
    ELSE IF r = 8490 THEN 107
    ELSE r

\* strings.ToUpper: rune by rune.
ToUpper(s) == [i \in 1..Len(s) |-> ToUpperRune(s[i])]

\* strings.ToLower: rune by rune.
ToLower(s) == [i \in 1..Len(s) |-> ToLowerRune(s[i])]

\* strings.HasSuffix.
HasSuffix(s, suffix) ==
    /\ Len(s) >= Len(suffix)
    /\ SubSeq(s, Len(s) - Len(suffix) + 1, Len(s)) = suffix

\* strings.HasPrefix.
HasPrefix(s, prefix) ==
    /\ Len(s) >= Len(prefix)
    /\ SubSeq(s, 1, Len(prefix)) = prefix

\* strings.Join.
RECURSIVE Join(_, _)
Join(elems, sep) ==
    IF elems = <<>> THEN <<>>
    ELSE IF Len(elems) = 1 THEN elems[1]
    ELSE elems[1] \o sep \o Join(Tail(elems), sep)

\* The position of the first r in s, 0 when there is none (strings.Index).
IndexRune(s, r) ==
    LET at == { i \in 1..Len(s) : s[i] = r }
    IN  IF at = {} THEN 0 ELSE CHOOSE i \in at : \A j \in at : i <= j

\* strings.SplitN(s, sep, 2) for a one-rune sep: at most two parts.
SplitN2(s, sep) ==
    LET i == IndexRune(s, sep)
    IN  IF i = 0 THEN << s >>
        ELSE << SubSeq(s, 1, i - 1), SubSeq(s, i + 1, Len(s)) >>

\* The literal "_KEY".
KeySuffix == <<95, 75, 69, 89>>
\* The literal "yes".
Yes == <<121, 101, 115>>

---------------------------------------------------------------------------
(* formatAndValidateKey and validateValue.                                 *)

\* regexp.MatchString(`^[A-Z_]+$`, s).
MatchKeyPattern(s) ==
    /\ Len(s) >= 1
    /\ \A i \in 1..Len(s) : s[i] \in 65..90 \/ s[i] = 95

\* regexp.MatchString(`[а-яА-ЯёЁ]`, s): U+0430..U+044F, U+0410..U+042F,
\* U+0451, U+0401.
MatchCyrillicPattern(s) ==
    \E i \in 1..Len(s) :
        s[i] \in 1072..1103 \/ s[i] \in 1040..1071 \/ s[i] = 1105 \/ s[i] = 1025

\* A mutant of formatAndValidateKey: the upper-casing is left out.
formatAndValidateKey_NoUpper(input) ==
    LET s == ReplaceAll(TrimSpace(input), 32, 95)
    IN  IF ~MatchKeyPattern(ToUpper(s))
        THEN [key |-> <<>>, err |-> "InvalidCharacters"]
        ELSE [key |-> IF HasSuffix(s, KeySuffix) THEN s ELSE s \o KeySuffix,
              err |-> "nil"]

\* A mutant of formatAndValidateKey: "_KEY" is appended without looking for
\* the suffix.
formatAndValidateKey_AlwaysAppend(input) ==
    LET s == ToUpper(ReplaceAll(TrimSpace(input), 32, 95))
    IN  IF ~MatchKeyPattern(s)
        THEN [key |-> <<>>, err |-> "InvalidCharacters"]
        ELSE [key |-> s \o KeySuffix, err |-> "nil"]

formatAndValidateKey(input) ==
    LET s == ToUpper(ReplaceAll(TrimSpace(input), 32, 95))
    IN  IF ~MatchKeyPattern(s)
        THEN [key |-> <<>>, err |-> "InvalidCharacters"]
        ELSE [key |-> IF HasSuffix(s, KeySuffix) THEN s ELSE s \o KeySuffix,
              err |-> "nil"]

validateValue(input) ==
    LET s == TrimSpace(input)
    IN  IF MatchCyrillicPattern(s)
        THEN [value |-> <<>>, err |-> "ForbiddenScript"]
        ELSE [value |-> s, err |-> "nil"]

---------------------------------------------------------------------------
(* The store: readEnvFileToMap and writeEnvMap.                            *)

\* make(map[string]string).
EmptyMap == [k \in {} |-> <<>>]

\* env[k] = v.
MapPut(env, k, v) ==
    [x \in (DOMAIN env) \cup {k} |-> IF x = k THEN v ELSE env[x]]

\* bufio.ScanLines' dropCR: one trailing carriage return is dropped.
DropCR(line) ==
    IF Len(line) > 0 /\ line[Len(line)] = 13
    THEN SubSeq(line, 1, Len(line) - 1)
    ELSE line

\* bufio.MaxScanTokenSize, the size bufio.NewScanner (main.go:65) lets the
\* scanner's buffer grow to.
MaxScanTokenSize == 65536

\* The size of the scanner's buffer at its first Read (bufio's startBufSize).
StartBufSize == 4096

\* The number of bytes of the UTF-8 encoding of the code point r; a code
\* point U+DC80..U+DCFF stands for one byte that is not part of valid UTF-8.
RuneLen(r) ==
    IF r < 128 THEN 1
    ELSE IF r < 2048 THEN 2
    ELSE IF r \in 56448..56575 THEN 1
    ELSE IF r < 65536 THEN 3
    ELSE 4

\* len(s) of Go: the number of bytes of the string s.
RECURSIVE ByteLen(_)
ByteLen(s) ==
    IF s = <<>> THEN 0 ELSE RuneLen(Head(s)) + ByteLen(Tail(s))

\* The Go string made of the bytes: its code points as `range` and the
\* strings, unicode and regexp packages decode them.  A byte that is not
\* part of a valid UTF-8 sequence is a rune of width 1; it is kept apart
\* from every code point as U+DC00 + byte.
RECURSIVE DecodeString(_)
DecodeString(bytes) ==
    IF bytes = <<>> THEN <<>>
    ELSE LET n == Len(bytes)
             b1 == bytes[1]
             Cont(i) == i <= n /\ bytes[i] \in 128..191
             Second(lo, hi) == n >= 2 /\ bytes[2] \in lo..hi
             Rest(k) == DecodeString(SubSeq(bytes, k + 1, n))
         IN  IF b1 < 128 THEN << b1 >> \o Rest(1)
             ELSE IF b1 \in 194..223 /\ Cont(2)
             THEN << (b1 - 192) * 64 + (bytes[2] - 128) >> \o Rest(2)
             ELSE IF /\ b1 \in 224..239
                     /\ Second(IF b1 = 224 THEN 160 ELSE 128,
                               IF b1 = 237 THEN 159 ELSE 191)
                     /\ Cont(3)
             THEN << (b1 - 224) * 4096 + (bytes[2] - 128) * 64
                     + (bytes[3] - 128) >> \o Rest(3)
             ELSE IF /\ b1 \in 240..244
                     /\ Second(IF b1 = 240 THEN 144 ELSE 128,
                               IF b1 = 244 THEN 143 ELSE 191)
                     /\ Cont(3) /\ Cont(4)
             THEN << (b1 - 240) * 262144 + (bytes[2] - 128) * 4096
                     + (bytes[3] - 128) * 64 + (bytes[4] - 128) >> \o Rest(4)
             ELSE << 56320 + b1 >> \o Rest(1)

\* The bytes of the Go string s: the UTF-8 encoding of its code points, and
\* the one byte a code point U+DC80..U+DCFF stands for.
RECURSIVE EncodeString(_)
EncodeString(s) ==
    IF s = <<>> THEN <<>>
    ELSE LET r == Head(s)
             bytes ==
                 IF r < 128 THEN << r >>
                 ELSE IF r < 2048 THEN << 192 + (r \div 64), 128 + (r % 64) >>
                 ELSE IF r \in 56448..56575 THEN << r - 56320 >>
                 ELSE IF r < 65536
                 THEN << 224 + (r \div 4096), 128 + ((r \div 64) % 64), 128 + (r % 64) >>
                 ELSE << 240 + (r \div 262144), 128 + ((r \div 4096) % 64),
                         128 + ((r \div 64) % 64), 128 + (r % 64) >>
         IN  bytes \o EncodeString(Tail(s))

\* The tokens of bufio.Scanner with the default split function ScanLines:
\* the text between line feeds, a last unterminated line if it is not empty.
\* A line of MaxScanTokenSize bytes or more fills the buffer before its line
\* feed or the end of the file is seen: Scan() returns false (ErrTooLong)
\* and no further token is delivered.
RECURSIVE ScanLines(_)
ScanLines(data) ==
    IF data = <<>> THEN <<>>
    ELSE LET nl == IndexRune(data, 10)
             raw == IF nl = 0 THEN data ELSE SubSeq(data, 1, nl - 1)
         IN  IF ByteLen(raw) >= MaxScanTokenSize THEN <<>>
             ELSE IF nl = 0 THEN << DropCR(raw) >>
             ELSE << DropCR(raw) >>
                  \o ScanLines(SubSeq(data, nl + 1, Len(data)))

\* The body of the scanner loop of readEnvFileToMap, over the lines in order.
RECURSIVE ParseLines(_, _)
ParseLines(lines, env) ==
    IF lines = <<>> THEN env
    ELSE LET line == Head(lines)
             parts == SplitN2(line, 61)
         IN  IF TrimSpace(line) = <<>> \/ HasPrefix(line, <<35>>)
             THEN ParseLines(Tail(lines), env)
             ELSE IF Len(parts) = 2
             THEN ParseLines(Tail(lines),
                             MapPut(env, TrimSpace(parts[1]), TrimSpace(parts[2])))
             ELSE ParseLines(Tail(lines), env)

\* readEnvFileToMap when the scanner's reads deliver data: the mapping it
\* returns.  scanner.Err() is never looked at, so the mapping of the lines
\* scanned is returned with a nil error whatever ended the scan.
readEnvFileToMap(data) == ParseLines(ScanLines(data), EmptyMap)

\* The smaller of two numbers.
Min(a, b) == IF a <= b THEN a ELSE b

\* The file offsets at which Scanner.Scan calls Read while the loop of
\* readEnvFileToMap runs over a file of these bytes, no Read failing.  The
\* scanner holds bytes[pos - (end - start) + 1 .. pos] in buf[start:end] of
\* a buffer of `size` bytes and has read the file up to pos.  Scan hands
\* out the lines it holds; to read on it moves what it holds to the front
\* of the buffer when the buffer is full or more than half of it is used
\* up, doubles a full buffer (from StartBufSize up to MaxScanTokenSize; a
\* full buffer of that size ends the scan with ErrTooLong), and reads into
\* the free part.  A Read of a file fills what it is given, up to the end
\* of the file; the Read at the end of the file returns io.EOF.
RECURSIVE ScannerReads(_, _, _, _, _)
ScannerReads(bytes, start, end, size, pos) ==
    LET nl == IndexRune(SubSeq(bytes, pos - (end - start) + 1, pos), 10)
    IN  IF nl > 0 THEN ScannerReads(bytes, start + nl, end, size, pos)
        ELSE LET shift == start > 0 /\ (end = size \/ start > size \div 2)
                 s1 == IF shift THEN 0 ELSE start
                 e1 == IF shift THEN end - start ELSE end
                 full == e1 = size
             IN  IF full /\ size >= MaxScanTokenSize THEN {}
                 ELSE LET grown == IF size = 0 THEN StartBufSize ELSE 2 * size
                          z2 == IF full THEN Min(grown, MaxScanTokenSize) ELSE size
                          s2 == IF full THEN 0 ELSE s1
                          e2 == IF full THEN e1 - s1 ELSE e1
                          n == Min(z2 - e2, Len(bytes) - pos)
                      IN  IF n = 0 THEN {pos}
                          ELSE {pos} \cup ScannerReads(bytes, s2, e2 + n, z2, pos + n)

\* What the scanner's reads may deliver of a file holding data: all of it,
\* or, when a Read fails, the bytes read before it; a character the failed
\* Read cut through is left as bytes that are not valid UTF-8.
ReadOutcomes(data) ==
    LET bytes == EncodeString(data)
    IN  {data} \cup { DecodeString(SubSeq(bytes, 1, n)) :
                        n \in ScannerReads(bytes, 0, 0, 0, 0) }

\* The orders in which `for k, v := range envMap` may visit the keys.
RangeOrders(env) ==
    LET n == Cardinality(DOMAIN env)
    IN  { p \in [1..n -> DOMAIN env] : \A i, j \in 1..n : p[i] = p[j] => i = j }

\* A mutant of writeEnvMap: the line feed after the last record is left out.
writeEnvMap_NoFinalNewline(env, order) ==
    Join([i \in 1..Len(order) |-> order[i] \o <<61>> \o env[order[i]]], <<10>>)

\* writeEnvMap: the bytes handed to os.WriteFile when the map is visited in
\* the given order.
writeEnvMap(env, order) ==
    Join([i \in 1..Len(order) |-> order[i] \o <<61>> \o env[order[i]]], <<10>>) \o <<10>>

---------------------------------------------------------------------------
(* The run of main(): its inputs.                                          *)

\* promptOverwriteConfirmation: const maxAttempts.
maxAttempts == 3

\* The marker of "no line was read" (no string holds the code point -1).
NoLine == << -1 >>

\* Lines the user may give at the key prompt: "a", "a key", "b", "1", each
\* ended by a line feed, and end of input.
KeyLines ==
    { <<97, 10>>, <<97, 32, 107, 101, 121, 10>>, <<98, 10>>, <<49, 10>>, <<>> }

\* Lines the user may give at the value prompt: "v", " w " (CR LF ended),
\* "я" and end of input.
ValueLines ==
    { <<118, 10>>, <<32, 119, 32, 13, 10>>, <<1103, 10>>, <<>> }

\* Answers to the yes/no question: "yes", " YES" (CR LF ended), "no", "y" and
\* end of input.
IntentLines ==
    { <<121, 101, 115, 10>>, <<32, 89, 69, 83, 13, 10>>, <<110, 111, 10>>,
      <<121, 10>>, <<>> }

\* Confirmation attempts: "v", " v ", "V" and end of input.
AttemptLines ==
    { <<118, 10>>, <<32, 118, 32, 10>>, <<86, 10>>, <<>> }

\* Lines a .env file may be made of: "A_KEY=v", "Z= w", " #C=1" (an indented
\* comment holding an equals sign), "#c" (a comment) and a blank line.
FileLines ==
    { <<65, 95, 75, 69, 89, 61, 118>>, <<90, 61, 32, 119>>,
      <<32, 35, 67, 61, 49>>, <<35, 99>>, <<>> }

\* The .env files a run may start from: up to MaxFileLines lines, each ended
\* by a line feed.
RECURSIVE FilesOf(_)
FilesOf(n) ==
    IF n = 0 THEN { <<>> }
    ELSE LET shorter == FilesOf(n - 1)
         IN  shorter \cup { f \o l \o <<10>> : f \in shorter, l \in FileLines }
Files == FilesOf(MaxFileLines)

\* What a failed os.WriteFile may leave behind after truncating the file:
\* fewer bytes than data has, the last character possibly cut through.
ProperPrefixes(data) ==
    LET bytes == EncodeString(data)
    IN  { DecodeString(SubSeq(bytes, 1, n)) : n \in 0..(Len(bytes) - 1) }

---------------------------------------------------------------------------
(* The run of main(): its steps.                                           *)

\* The pure-function specifications are not running.
FnIdle == fnPc = "idle" /\ fnIn = <<>> /\ fnOut = <<>>

\* Standard input is not modelled: Spec draws each line when it is read.
StdinIdle ==
    /\ stdin = <<>> /\ stdin0 = <<>>
    /\ rbuf = <<>> /\ consumed = <<>>

\* The first invocation of main(): no earlier one has saved anything.
FirstRun == lastWritten = EmptyMap /\ saveFailed = FALSE

Init ==
    /\ pc = "PromptKey"
    /\ fileExists \in BOOLEAN
    /\ file \in (IF fileExists THEN Files ELSE { <<>> })
    /\ file0Exists = fileExists
    /\ file0 = file
    /\ originalKeyInput = <<>>
    /\ formattedKey = <<>>
    /\ value = <<>>
    /\ err = "nil"
    /\ loaded = EmptyMap
    /\ envMap = EmptyMap
    /\ currentValue = <<>>
    /\ confirm = NoLine
    /\ entered = <<>>
    /\ attempts = 0
    /\ added = FALSE
    /\ updated = FALSE
    /\ writes = 0
    /\ rejections = 0
    /\ FnIdle
    /\ StdinIdle
    /\ FirstRun

\* main.go:142-144 with promptValidInput (40-53) and the identity validator:
\* one line is read and trimmed; it is always accepted.
PromptKeyLine(line) ==
    /\ pc = "PromptKey"
    /\ originalKeyInput' = TrimSpace(line)
    /\ pc' = "FormatKey"
    /\ UNCHANGED <<fileExists, file, file0Exists, file0, formattedKey, value, err,
                   loaded, envMap, currentValue, confirm, entered, attempts, added,
                   updated, writes, rejections, fnVars, runVars>>

\* The key prompt of Spec: the line is any of KeyLines.
PromptKey ==
    \E line \in KeyLines : PromptKeyLine(line) /\ UNCHANGED stdinVars

\* A mutant of FormatKey: after a rejection the run goes on to the value
\* prompt.
FormatKey_GoesOn ==
    /\ pc = "FormatKey"
    /\ LET r == formatAndValidateKey(originalKeyInput)
       IN  \/ /\ r.err # "nil"
              /\ err' = r.err
              /\ pc' = "PromptValue"
              /\ UNCHANGED formattedKey
           \/ /\ r.err = "nil"
              /\ formattedKey' = r.key
              /\ pc' = "PromptValue"
              /\ UNCHANGED err
    /\ UNCHANGED <<fileExists, file, file0Exists, file0, originalKeyInput, value,
                   loaded, envMap, currentValue, confirm, entered, attempts, added,
                   updated, writes, rejections, fnVars, stdinVars, runVars>>

\* main.go:147-151: the key is formatted once; a rejection ends the run.
FormatKey ==
    /\ pc = "FormatKey"
    /\ LET r == formatAndValidateKey(originalKeyInput)
       IN  \/ /\ r.err # "nil"
              /\ err' = r.err
              /\ pc' = "Exit"
              /\ UNCHANGED formattedKey
           \/ /\ r.err = "nil"
              /\ formattedKey' = r.key
              /\ pc' = "PromptValue"
              /\ UNCHANGED err
    /\ UNCHANGED <<fileExists, file, file0Exists, file0, originalKeyInput, value,
                   loaded, envMap, currentValue, confirm, entered, attempts, added,
                   updated, writes, rejections, fnVars, stdinVars, runVars>>

\* main.go:153 with promptValidInput (40-53) and validateValue: one pass of
\* the loop.  A rejected line prints the error and asks again.
PromptValueLine(line) ==
    /\ pc = "PromptValue"
    /\ LET r == validateValue(TrimSpace(line))
       IN  \/ /\ r.err # "nil"
              /\ rejections < MaxRejections
              /\ rejections' = rejections + 1
              /\ UNCHANGED <<pc, value>>
           \/ /\ r.err = "nil"
              /\ value' = r.value
              /\ pc' = "Load"
              /\ UNCHANGED rejections
    /\ UNCHANGED <<fileExists, file, file0Exists, file0, originalKeyInput,
                   formattedKey, err, loaded, envMap, currentValue, confirm,
                   entered, attempts, added, updated, writes, fnVars, runVars>>

\* The value prompt of Spec: the line is any of ValueLines.
PromptValue ==
    \E line \in ValueLines : PromptValueLine(line) /\ UNCHANGED stdinVars

\* A mutant of Load: the file is opened with os.Create, which truncates it.
Load_Truncating ==
    /\ pc = "Load"
    /\ \/ /\ err' = "IOError:load"
          /\ pc' = "Exit"
          /\ UNCHANGED <<fileExists, file, loaded, envMap>>
       \/ /\ fileExists' = TRUE
          /\ file' = <<>>
          /\ \E got \in ReadOutcomes(file') : envMap' = readEnvFileToMap(got)
          /\ loaded' = envMap'
          /\ pc' = "Decide"
          /\ UNCHANGED err
    /\ UNCHANGED <<file0Exists, file0, originalKeyInput, formattedKey, value,
                   currentValue, confirm, entered, attempts, added, updated, writes,
                   rejections, fnVars, stdinVars, runVars>>

\* main.go:118-121 with readEnvFileToMap (56-77): os.OpenFile either fails,
\* or opens the file, creating it empty when it is absent; the scanner then
\* reads the file, or stops at a Read that fails.
Load ==
    /\ pc = "Load"
    /\ \/ /\ err' = "IOError:load"
          /\ pc' = "Exit"
          /\ UNCHANGED <<fileExists, file, loaded, envMap>>
       \/ /\ fileExists' = TRUE
          /\ file' = file
          /\ \E got \in ReadOutcomes(file') : envMap' = readEnvFileToMap(got)
          /\ loaded' = envMap'
          /\ pc' = "Decide"
          /\ UNCHANGED err
    /\ UNCHANGED <<file0Exists, file0, originalKeyInput, formattedKey, value,
                   currentValue, confirm, entered, attempts, added, updated, writes,
                   rejections, fnVars, stdinVars, runVars>>

\* os.WriteFile(filePath, data, 0644) at main.go:85 for the map env: it
\* replaces the contents, or fails on opening (file untouched), on writing
\* (file truncated, a proper prefix of the data written) or on closing (the
\* data written, the error of Close returned).
WriteFile(env) ==
    /\ writes' = writes + 1
    /\ \E order \in RangeOrders(env) :
         LET data == writeEnvMap(env, order)
         IN  \/ /\ file' = data
                /\ fileExists' = TRUE
                /\ err' = "nil"
             \/ /\ UNCHANGED <<file, fileExists>>
                /\ err' = "IOError:save"
             \/ /\ file' \in ProperPrefixes(data)
                /\ fileExists' = TRUE
                /\ err' = "IOError:save"
             \/ /\ file' = data
                /\ fileExists' = TRUE
                /\ err' = "IOError:save"

\* A mutant of InsertAndCommit: a fresh map holding only the new entry is
\* written.
InsertAndCommit_FreshMap ==
    /\ pc = "Decide"
    /\ formattedKey \notin DOMAIN envMap
    /\ envMap' = MapPut(EmptyMap, formattedKey, value)
    /\ WriteFile(envMap')
    /\ added' = TRUE
    /\ pc' = "Exit"
    /\ UNCHANGED <<file0Exists, file0, originalKeyInput, formattedKey, value, loaded,
                   currentValue, confirm, entered, attempts, updated, rejections,
                   fnVars, stdinVars, runVars>>

\* main.go:123, 133-135: the key is absent; insert it and write the file.
InsertAndCommit ==
    /\ pc = "Decide"
    /\ formattedKey \notin DOMAIN envMap
    /\ envMap' = MapPut(envMap, formattedKey, value)
    /\ WriteFile(envMap')
    /\ added' = TRUE
    /\ pc' = "Exit"
    /\ UNCHANGED <<file0Exists, file0, originalKeyInput, formattedKey, value, loaded,
                   currentValue, confirm, entered, attempts, updated, rejections,
                   fnVars, stdinVars, runVars>>

\* A mutant of ConfirmIntent: the answer is read but not tested.
ConfirmIntent_IgnoreAnswer ==
    /\ pc = "Decide"
    /\ formattedKey \in DOMAIN envMap
    /\ currentValue' = envMap[formattedKey]
    /\ \E line \in IntentLines :
         /\ confirm' = line
         /\ pc' = "ConfirmValue" /\ attempts' = 1
    /\ UNCHANGED <<fileExists, file, file0Exists, file0, originalKeyInput,
                   formattedKey, value, err, loaded, envMap, entered, added, updated,
                   writes, rejections, fnVars, stdinVars, runVars>>

\* A mutant of ConfirmIntent: any answer that "yes" starts with, "y" included,
\* counts as yes.
ConfirmIntent_AcceptPrefix ==
    /\ pc = "Decide"
    /\ formattedKey \in DOMAIN envMap
    /\ currentValue' = envMap[formattedKey]
    /\ \E line \in IntentLines :
         /\ confirm' = line
         /\ IF ~HasPrefix(Yes, ToLower(TrimSpace(line))) \/ TrimSpace(line) = <<>>
            THEN pc' = "Exit" /\ UNCHANGED attempts
            ELSE pc' = "ConfirmValue" /\ attempts' = 1
    /\ UNCHANGED <<fileExists, file, file0Exists, file0, originalKeyInput,
                   formattedKey, value, err, loaded, envMap, entered, added, updated,
                   writes, rejections, fnVars, stdinVars, runVars>>

\* main.go:123-125 with promptOverwriteConfirmation (89-98): the key exists;
\* the yes/no answer is read, trimmed and lower-cased.
ConfirmIntentLine(line) ==
    /\ pc = "Decide"
    /\ formattedKey \in DOMAIN envMap
    /\ currentValue' = envMap[formattedKey]
    /\ confirm' = line
    /\ IF ToLower(TrimSpace(line)) # Yes
       THEN pc' = "Exit" /\ UNCHANGED attempts
       ELSE pc' = "ConfirmValue" /\ attempts' = 1
    /\ UNCHANGED <<fileExists, file, file0Exists, file0, originalKeyInput,
                   formattedKey, value, err, loaded, envMap, entered, added, updated,
                   writes, rejections, fnVars, runVars>>

\* The yes/no question of Spec: the line is any of IntentLines.
ConfirmIntent ==
    \E line \in IntentLines : ConfirmIntentLine(line) /\ UNCHANGED stdinVars

\* A mutant of ConfirmValue: the loop condition is off by one and lets a
\* fourth attempt in.
ConfirmValue_OffByOne ==
    /\ pc = "ConfirmValue"
    /\ attempts <= maxAttempts + 1
    /\ \E line \in AttemptLines :
         /\ entered' = Append(entered, line)
         /\ IF TrimSpace(line) = currentValue
            THEN pc' = "Update" /\ UNCHANGED attempts
            ELSE attempts' = attempts + 1 /\ UNCHANGED pc
    /\ UNCHANGED <<fileExists, file, file0Exists, file0, originalKeyInput,
                   formattedKey, value, err, loaded, envMap, currentValue, confirm,
                   added, updated, writes, rejections, fnVars, stdinVars, runVars>>

\* A mutant of ConfirmValue: the attempt is compared without regard to
\* letter case.
ConfirmValue_FoldCase ==
    /\ pc = "ConfirmValue"
    /\ attempts <= maxAttempts
    /\ \E line \in AttemptLines :
         /\ entered' = Append(entered, line)
         /\ IF ToLower(TrimSpace(line)) = ToLower(currentValue)
            THEN pc' = "Update" /\ UNCHANGED attempts
            ELSE attempts' = attempts + 1 /\ UNCHANGED pc
    /\ UNCHANGED <<fileExists, file, file0Exists, file0, originalKeyInput,
                   formattedKey, value, err, loaded, envMap, currentValue, confirm,
                   added, updated, writes, rejections, fnVars, stdinVars, runVars>>

\* A mutant of ConfirmValueLine: the loop lets a fourth attempt in.
ConfirmValueLine_FourAttempts(line) ==
    /\ pc = "ConfirmValue"
    /\ attempts <= maxAttempts + 1
    /\ entered' = Append(entered, line)
    /\ IF TrimSpace(line) = currentValue
       THEN pc' = "Update" /\ UNCHANGED attempts
       ELSE attempts' = attempts + 1 /\ UNCHANGED pc
    /\ UNCHANGED <<fileExists, file, file0Exists, file0, originalKeyInput,
                   formattedKey, value, err, loaded, envMap, currentValue, confirm,
                   added, updated, writes, rejections, fnVars, runVars>>

\* main.go:101-110: one pass of the attempts loop.
ConfirmValueLine(line) ==
    /\ pc = "ConfirmValue"
    /\ attempts <= maxAttempts
    /\ entered' = Append(entered, line)
    /\ IF TrimSpace(line) = currentValue
       THEN pc' = "Update" /\ UNCHANGED attempts
       ELSE attempts' = attempts + 1 /\ UNCHANGED pc
    /\ UNCHANGED <<fileExists, file, file0Exists, file0, originalKeyInput,
                   formattedKey, value, err, loaded, envMap, currentValue, confirm,
                   added, updated, writes, rejections, fnVars, runVars>>

\* A confirmation attempt of Spec: the line is any of AttemptLines.
ConfirmValue ==
    \E line \in AttemptLines : ConfirmValueLine(line) /\ UNCHANGED stdinVars

\* main.go:101, 112-113, 125-127: the loop ends without a match.
ConfirmExhausted ==
    /\ pc = "ConfirmValue"
    /\ attempts > maxAttempts
    /\ pc' = "Exit"
    /\ UNCHANGED <<fileExists, file, file0Exists, file0, originalKeyInput,
                   formattedKey, value, err, loaded, envMap, currentValue, confirm,
                   entered, attempts, added, updated, writes, rejections, fnVars, stdinVars, runVars>>

\* A mutant of UpdateAndCommit: the map is written without the new value
\* having been stored in it.
UpdateAndCommit_StaleValue ==
    /\ pc = "Update"
    /\ envMap' = envMap
    /\ WriteFile(envMap')
    /\ updated' = TRUE
    /\ pc' = "Exit"
    /\ UNCHANGED <<file0Exists, file0, originalKeyInput, formattedKey, value, loaded,
                   currentValue, confirm, entered, attempts, added, rejections,
                   fnVars, stdinVars, runVars>>

\* main.go:128-130: the overwrite was confirmed; update and write the file.
UpdateAndCommit ==
    /\ pc = "Update"
    /\ envMap' = MapPut(envMap, formattedKey, value)
    /\ WriteFile(envMap')
    /\ updated' = TRUE
    /\ pc' = "Exit"
    /\ UNCHANGED <<file0Exists, file0, originalKeyInput, formattedKey, value, loaded,
                   currentValue, confirm, entered, attempts, added, rejections,
                   fnVars, stdinVars, runVars>>

Next ==
    \/ PromptKey
    \/ FormatKey
    \/ PromptValue
    \/ Load
    \/ InsertAndCommit
    \/ ConfirmIntent
    \/ ConfirmValue
    \/ ConfirmExhausted
    \/ UpdateAndCommit

Spec == Init /\ [][Next]_vars

---------------------------------------------------------------------------
(* Properties of the run of main().                                        *)

\* The answer promptOverwriteConfirmation takes for "yes": the line read,
\* trimmed and lower-cased (main.go:93, 95).
IsYes(line) == line # NoLine /\ ToLower(TrimSpace(line)) = Yes

\* The candidate string of a confirmation attempt: the line read, as
\* promptOverwriteConfirmation holds it in `entered` (main.go:103-104).
Candidate(line) == TrimSpace(line)

\* The canonical key was in the store when it was loaded.
KeyWasPresent == formattedKey \in DOMAIN loaded

\* AddOrUpdateEnvVarSecure returned (false, false, nil) after the
\* confirmation was refused: the Cancelled outcome.
Cancelled ==
    pc = "Exit" /\ KeyWasPresent /\ ~added /\ ~updated /\ err = "nil"

\* AddOrUpdateEnvVarSecure has loaded the store and returned.
UpsertReturned ==
    pc = "Exit" /\ err \notin {"InvalidCharacters", "IOError:load"}

\* The positions at which a line of data starts.
LineStarts(data) ==
    { p \in 1..Len(data) : p = 1 \/ data[p - 1] = 10 }

\* The line of data that starts at position p, without its line feed.
LineAt(data, p) ==
    LET ends == { e \in p..Len(data) : data[e] = 10 }
        e == IF ends = {} THEN Len(data) + 1
             ELSE CHOOSE x \in ends : \A y \in ends : x <= y
    IN  SubSeq(data, p, e - 1)

\* line is the record KEY=VALUE of an entry of env.
IsRecordOf(line, env) ==
    \E k \in DOMAIN env : line = k \o <<61>> \o env[k]

\* Some order of the map's keys gives these file contents.
IsSerialisationOf(data, env) ==
    \E order \in RangeOrders(env) : data = writeEnvMap(env, order)

\* C1: when the canonical key is already in the loaded store, the file is
\* written or the stored value changed only if the intent answer was "yes"
\* and one of at most 3 confirmation attempts equalled the value the store
\* held for the key at load time.
C1_OverwriteGuard ==
    (KeyWasPresent /\ (writes > 0 \/ file # file0 \/ envMap # loaded))
        => /\ IsYes(confirm)
           /\ Len(entered) <= 3
           /\ \E i \in 1..Len(entered) : Candidate(entered[i]) = loaded[formattedKey]

\* C1 witness: an existing key was overwritten after "yes" and a matching
\* first attempt.
C1_Witness ==
    /\ pc = "Exit" /\ KeyWasPresent /\ updated /\ writes = 1 /\ err = "nil"
    /\ IsYes(confirm) /\ Len(entered) = 1
    /\ Candidate(entered[1]) = loaded[formattedKey]
    /\ readEnvFileToMap(file)[formattedKey] = value
    /\ value # loaded[formattedKey]

\* C2 (as amended): upsert on an absent key returns added without reading any
\* confirmation input; the store then maps the key to the new value and holds
\* every other entry unchanged; and when the save succeeds the written file
\* has the line KEY=VALUE of the new entry and of every other entry, and no
\* other line.
C2_AbsentKeyAdded ==
    (UpsertReturned /\ ~KeyWasPresent)
        => /\ added /\ ~updated
           /\ confirm = NoLine /\ entered = <<>>
           /\ envMap = MapPut(loaded, formattedKey, value)
           /\ err = "nil" =>
                /\ \E p \in LineStarts(file) :
                      LineAt(file, p) = formattedKey \o <<61>> \o value
                /\ \A k \in DOMAIN loaded \ {formattedKey} :
                      \E p \in LineStarts(file) :
                         LineAt(file, p) = k \o <<61>> \o loaded[k]
                /\ \A p \in LineStarts(file) :
                      IsRecordOf(LineAt(file, p), envMap)

\* C2 as stated: every other entry of the store is still there when the
\* store is re-loaded from the written file.
C2_AbsentKeyAdded_Reloaded ==
    (UpsertReturned /\ ~KeyWasPresent)
        => /\ added /\ ~updated
           /\ confirm = NoLine /\ entered = <<>>
           /\ envMap = MapPut(loaded, formattedKey, value)
           /\ err = "nil" =>
                LET again == readEnvFileToMap(file)
                IN  /\ formattedKey \in DOMAIN again
                    /\ again[formattedKey] = value
                    /\ \A k \in DOMAIN loaded :
                         k \in DOMAIN again /\ again[k] = loaded[k]

\* C2 witness: a key was added to a store that held two other entries, one
\* of them under a key beginning with '#', and the file was written.
C2_Witness ==
    /\ UpsertReturned /\ ~KeyWasPresent /\ added /\ err = "nil"
    /\ Cardinality(DOMAIN loaded) = 2
    /\ \E k \in DOMAIN loaded : HasPrefix(k, <<35>>)
    /\ \E k \in DOMAIN loaded : ~HasPrefix(k, <<35>>)
    /\ Cardinality(DOMAIN readEnvFileToMap(file)) = 2

\* C3: once an intent answer other than "yes" (case-insensitive) was read for
\* an existing key, the run is at Cancelled: no attempt was read, nothing was
\* written, and file and store are as loaded.
C3_NonYesCancels ==
    (confirm # NoLine /\ ~IsYes(confirm))
        => /\ Cancelled
           /\ entered = <<>>
           /\ writes = 0
           /\ file = file0 /\ fileExists = file0Exists
           /\ envMap = loaded
           /\ readEnvFileToMap(file)[formattedKey] = loaded[formattedKey]

\* C3 witness: the answer "y" cancelled the update of an existing key.
C3_Witness ==
    /\ Cancelled /\ confirm = <<121, 10>> /\ entered = <<>> /\ writes = 0
    /\ value # loaded[formattedKey]

\* C4: after "yes" and 3 attempts that all differ from the current value the
\* outcome is Cancelled; no 4th attempt is ever read, a cancellation after
\* "yes" has read exactly 3, nothing is written and the store is unchanged.
C4_ThreeWrongAttemptsCancel ==
    /\ Len(entered) <= 3
    /\ (Cancelled /\ IsYes(confirm)) => Len(entered) = 3
    /\ (/\ IsYes(confirm)
        /\ Len(entered) = 3
        /\ \A i \in 1..3 : Candidate(entered[i]) # currentValue)
         => /\ \/ Cancelled
               \/ pc = "ConfirmValue" /\ attempts > maxAttempts
            /\ ~added /\ ~updated /\ err = "nil"
            /\ writes = 0
            /\ file = file0
            /\ envMap = loaded
            /\ readEnvFileToMap(file)[formattedKey] = currentValue

\* C4 witness: "yes", three wrong attempts, Cancelled.
C4_Witness ==
    /\ Cancelled /\ IsYes(confirm) /\ Len(entered) = 3
    /\ \A i \in 1..3 : Candidate(entered[i]) # currentValue
    /\ entered[1] # entered[2]
    /\ value # currentValue

\* C5: after "yes", when attempt k is the first to match (k = 1, 2 or 3) it
\* is the last one read, the outcome is Updated, the store maps the key to
\* the new value with all other entries unchanged, and that store is what the
\* one write puts in the file.
C5_MatchOnAttemptKUpdates ==
    \A k \in 1..Len(entered) :
        (/\ IsYes(confirm)
         /\ Candidate(entered[k]) = currentValue
         /\ \A j \in 1..(k - 1) : Candidate(entered[j]) # currentValue)
          => /\ k = Len(entered)
             /\ k <= 3
             /\ pc \in {"Update", "Exit"}
             /\ pc = "Update" => (envMap = loaded /\ writes = 0 /\ file = file0)
             /\ pc = "Exit" =>
                  /\ updated /\ ~added /\ writes = 1
                  /\ envMap = MapPut(loaded, formattedKey, value)
                  /\ \A o \in DOMAIN loaded : o \in DOMAIN envMap
                  /\ err = "nil" => IsSerialisationOf(file, envMap)

\* C5 witness: the third attempt was the first to match and the key was
\* updated in a store holding another entry.
C5_Witness ==
    /\ pc = "Exit" /\ updated /\ err = "nil" /\ Len(entered) = 3
    /\ Candidate(entered[3]) = currentValue
    /\ Candidate(entered[1]) # currentValue /\ Candidate(entered[2]) # currentValue
    /\ Cardinality(DOMAIN loaded) = 2
    /\ envMap[formattedKey] = value /\ value # currentValue

\* C6: a run writes the file at most once, and only when it reports added or
\* updated; while nothing was written the contents are those the run started
\* with, and on Cancelled or a load IOError the file is exactly as it was.
C6_AtMostOneWrite ==
    /\ writes <= 1
    /\ writes = 1 => (pc = "Exit" /\ (added \/ updated) /\ ~(added /\ updated))
    /\ writes = 0 => file = file0
    /\ (Cancelled \/ (pc = "Exit" /\ err = "IOError:load"))
         => (file = file0 /\ fileExists = file0Exists /\ writes = 0)

\* C6 witness: the load of a non-empty file failed and the run ended.
C6_Witness ==
    /\ pc = "Exit" /\ err = "IOError:load" /\ file0Exists /\ file0 # <<>>
    /\ file = file0 /\ writes = 0

\* C7: no rejection of a key (InvalidCharacters) or of a value
\* (ForbiddenScript) ends the run.
C7_RejectionNeverEndsRun ==
    pc = "Exit" => err \notin {"InvalidCharacters", "ForbiddenScript"}

---------------------------------------------------------------------------
(* The pure functions on their own: each specification draws an argument   *)
(* and applies the function to it.                                         *)

\* main() is not running.
ProtoIdle ==
    /\ pc = "Idle"
    /\ fileExists = FALSE /\ file = <<>>
    /\ file0Exists = FALSE /\ file0 = <<>>
    /\ originalKeyInput = <<>> /\ formattedKey = <<>> /\ value = <<>>
    /\ err = "nil"
    /\ loaded = EmptyMap /\ envMap = EmptyMap
    /\ currentValue = <<>> /\ confirm = NoLine /\ entered = <<>>
    /\ attempts = 0 /\ added = FALSE /\ updated = FALSE
    /\ writes = 0 /\ rejections = 0
    /\ StdinIdle
    /\ FirstRun

\* Code points of raw keys: space, '_', 'k', 'e', 'y', 'K', '1'.
KeyAlphabet == {32, 95, 107, 101, 121, 75, 49}

\* Code points of raw values: space, 'a', 'A', '1', 'я' (U+044F), 'Ё' (U+0401)
\* and the Cyrillic letter 'і' (U+0456).
ValueAlphabet == {32, 97, 65, 49, 1103, 1025, 1110}

\* Code points of .env files: 'a', '=', '#', space, line feed.
FileAlphabet == {97, 61, 35, 32, 10}

InitKey ==
    /\ ProtoIdle
    /\ fnPc = "input"
    /\ fnIn \in StringsUpTo(KeyAlphabet, MaxKeyLen)
    /\ fnOut = <<>>

\* A call formatAndValidateKey(fnIn), main.go:12-27.
NormalizeKey ==
    /\ fnPc = "input"
    /\ fnOut' = formatAndValidateKey(fnIn)
    /\ fnPc' = "done"
    /\ UNCHANGED <<fnIn, protoVars, stdinVars, runVars>>

\* A second call, formatAndValidateKey(K), on the key K the first call
\* returned.
NormalizeAgain ==
    /\ fnPc = "done"
    /\ fnOut.err = "nil"
    /\ fnOut' = [key |-> fnOut.key, err |-> fnOut.err,
                 again |-> formatAndValidateKey(fnOut.key)]
    /\ fnPc' = "again"
    /\ UNCHANGED <<fnIn, protoVars, stdinVars, runVars>>

NextKey == NormalizeKey \/ NormalizeAgain

SpecKey == InitKey /\ [][NextKey]_vars

InitValue ==
    /\ ProtoIdle
    /\ fnPc = "input"
    /\ fnIn \in StringsUpTo(ValueAlphabet, MaxValueLen)
    /\ fnOut = <<>>

\* A call validateValue(fnIn), main.go:30-37.
ValidateValue ==
    /\ fnPc = "input"
    /\ fnOut' = validateValue(fnIn)
    /\ fnPc' = "done"
    /\ UNCHANGED <<fnIn, protoVars, stdinVars, runVars>>

SpecValue == InitValue /\ [][ValidateValue]_vars

InitRoundTrip ==
    /\ ProtoIdle
    /\ fnPc = "input"
    /\ fnIn \in StringsUpTo(FileAlphabet, MaxFileLen)
    /\ fnOut = [first |-> EmptyMap, data |-> <<>>, second |-> EmptyMap]

\* load(path): readEnvFileToMap on the file fnIn, main.go:56-77; the file
\* is read to its end, or to a Read that fails.
RoundTripLoad ==
    /\ fnPc = "input"
    /\ \E got \in ReadOutcomes(fnIn) :
         fnOut' = [fnOut EXCEPT !.first = readEnvFileToMap(got)]
    /\ fnPc' = "loaded"
    /\ UNCHANGED <<fnIn, protoVars, stdinVars, runVars>>

\* save(path, mapping): writeEnvMap, main.go:80-86, in any order of the keys.
RoundTripSave ==
    /\ fnPc = "loaded"
    /\ \E order \in RangeOrders(fnOut.first) :
         fnOut' = [fnOut EXCEPT !.data = writeEnvMap(fnOut.first, order)]
    /\ fnPc' = "saved"
    /\ UNCHANGED <<fnIn, protoVars, stdinVars, runVars>>

\* load(path) again, on the file just written.
RoundTripReload ==
    /\ fnPc = "saved"
    /\ \E got \in ReadOutcomes(fnOut.data) :
         fnOut' = [fnOut EXCEPT !.second = readEnvFileToMap(got)]
    /\ fnPc' = "reloaded"
    /\ UNCHANGED <<fnIn, protoVars, stdinVars, runVars>>

NextRoundTrip == RoundTripLoad \/ RoundTripSave \/ RoundTripReload

SpecRoundTrip == InitRoundTrip /\ [][NextRoundTrip]_vars

---------------------------------------------------------------------------
(* Properties of the pure functions.                                       *)

\* A letter, digit or punctuation mark among the code points of the
\* alphabets: not white space, not a control character.
IsLetterDigitPunct(r) == r >= 33 /\ r # 127 /\ ~IsSpace(r)

\* s is made of the characters A-Z and '_' only (it may be empty).
OnlyUpperAndUnderscore(s) == \A i \in 1..Len(s) : s[i] \in 65..90 \/ s[i] = 95

\* s matches ^[A-Z_]+_KEY$: one or more of A-Z and '_', then "_KEY".
MatchesNonEmptyStemKey(s) ==
    /\ HasSuffix(s, KeySuffix)
    /\ Len(s) >= Len(KeySuffix) + 1
    /\ OnlyUpperAndUnderscore(s)

\* s matches ^[A-Z_]*_KEY$: any number of A-Z and '_', then "_KEY".
MatchesStemKey(s) == HasSuffix(s, KeySuffix) /\ OnlyUpperAndUnderscore(s)

\* C8 (as amended): for every raw key made only of letters, digits and
\* punctuation, formatAndValidateKey rejects it with InvalidCharacters or
\* returns a string matching ^[A-Z_]*_KEY$: A-Z and '_' only, ending in
\* "_KEY", where nothing need precede the suffix.
C8_NormalizeResultShape ==
    (fnPc = "done" /\ \A i \in 1..Len(fnIn) : IsLetterDigitPunct(fnIn[i]))
        => \/ fnOut.err = "InvalidCharacters" /\ fnOut.key = <<>>
           \/ fnOut.err = "nil" /\ MatchesStemKey(fnOut.key)

\* C8 as stated: the result matches ^[A-Z_]+_KEY$, at least one character
\* before the suffix.
C8_NormalizeResultShape_NonEmptyStem ==
    (fnPc = "done" /\ \A i \in 1..Len(fnIn) : IsLetterDigitPunct(fnIn[i]))
        => \/ fnOut.err = "InvalidCharacters" /\ fnOut.key = <<>>
           \/ fnOut.err = "nil" /\ MatchesNonEmptyStemKey(fnOut.key)

\* C8 witness: the raw key "_key" is accepted and comes back as "_KEY".
C8_Witness ==
    /\ fnPc = "done"
    /\ fnIn = <<95, 107, 101, 121>>
    /\ fnOut.err = "nil"
    /\ fnOut.key = KeySuffix

\* A letter of the Unicode Cyrillic block U+0400..U+04FF (U+0482..U+0489 are
\* signs and combining marks, not letters); the block holds ё and Ё.
IsCyrillicLetter(r) == r \in 1024..1153 \/ r \in 1162..1279

\* C9: validateValue rejects with ForbiddenScript every input whose trimmed
\* form holds a Cyrillic letter, and returns every other input trimmed and
\* otherwise unchanged.
C9_ValidateRejectsCyrillic ==
    fnPc = "done"
        => IF \E i \in 1..Len(TrimSpace(fnIn)) : IsCyrillicLetter(TrimSpace(fnIn)[i])
           THEN fnOut.err = "ForbiddenScript"
           ELSE fnOut.err = "nil" /\ fnOut.value = TrimSpace(fnIn)

\* No '=' and no line feed in s.
NoEqualsNoNewline(s) == \A i \in 1..Len(s) : s[i] # 61 /\ s[i] # 10

\* The mapping is one the round trip is claimed for: keys and values hold no
\* '=' and no line feed, and no key starts with '#'.
RoundTripDomain(env) ==
    \A k \in DOMAIN env :
        /\ NoEqualsNoNewline(k)
        /\ NoEqualsNoNewline(env[k])
        /\ ~HasPrefix(k, <<35>>)

\* C10: when the mapping first loaded from a file has no '=' or line feed in
\* its keys and values and no key starting with '#', saving it and loading
\* the saved file gives that mapping again.
C10_RoundTrip ==
    (fnPc = "reloaded" /\ RoundTripDomain(fnOut.first))
        => fnOut.second = fnOut.first

---------------------------------------------------------------------------
(* Further properties of the run of main().                                *)

\* The run wrote the file and os.WriteFile reported no error.
WroteFile == pc = "Exit" /\ writes = 1 /\ err = "nil"

\* C11 (as amended): after a successful write the file ends with a line
\* feed, holds no blank line, every line of it is the KEY=VALUE record of an
\* entry of the store, and a line beginning with '#' is the record of an
\* entry that was loaded under a key beginning with '#'.
C11_WrittenFileIsRecords ==
    WroteFile =>
        /\ file # <<>> /\ file[Len(file)] = 10
        /\ (added \/ updated)
        /\ \A p \in LineStarts(file) :
              LET line == LineAt(file, p)
              IN  /\ TrimSpace(line) # <<>>
                  /\ IsRecordOf(line, envMap)
                  /\ HasPrefix(line, <<35>>) =>
                        \E k \in DOMAIN loaded :
                           /\ HasPrefix(k, <<35>>)
                           /\ line = k \o <<61>> \o loaded[k]

\* C11 as stated: after a successful write no line of the file begins with
\* '#'.
C11_NoHashLineAfterWrite ==
    WroteFile =>
        /\ file # <<>> /\ file[Len(file)] = 10
        /\ \A p \in LineStarts(file) :
              LET line == LineAt(file, p)
              IN  /\ TrimSpace(line) # <<>>
                  /\ IsRecordOf(line, envMap)
                  /\ ~HasPrefix(line, <<35>>)

\* C11 witness: the file held a comment and a blank line, a key was added,
\* and the written file is the one record.
C11_Witness ==
    /\ WroteFile /\ added
    /\ file0 = <<35, 99, 10, 10>>
    /\ Len(ScanLines(file)) = 1
    /\ IsRecordOf(ScanLines(file)[1], envMap)

\* C12: when AddOrUpdateEnvVarSecure has returned, added and updated are not
\* both set, and when the load or the save failed with an IOError neither of
\* them is set.
C12_OneOutcomePerInvocation ==
    (pc = "Exit" /\ err # "InvalidCharacters")
        => /\ ~(added /\ updated)
           /\ err \in {"IOError:load", "IOError:save"} => (~added /\ ~updated)

---------------------------------------------------------------------------
(* readEnvFileToMap as AddOrUpdateEnvVarSecure calls it: a specification   *)
(* that starts where main() has read key and value and is about to load    *)
(* the file, for every file content up to MaxFileLen code points.          *)

InitLoad ==
    /\ pc = "Load"
    /\ fileExists \in BOOLEAN
    /\ file \in (IF fileExists THEN StringsUpTo(FileAlphabet, MaxFileLen)
                 ELSE { <<>> })
    /\ file0Exists = fileExists
    /\ file0 = file
    /\ originalKeyInput = <<97>>
    /\ formattedKey = <<65>> \o KeySuffix
    /\ value = <<118>>
    /\ err = "nil"
    /\ loaded = EmptyMap
    /\ envMap = EmptyMap
    /\ currentValue = <<>>
    /\ confirm = NoLine
    /\ entered = <<>>
    /\ attempts = 0
    /\ added = FALSE
    /\ updated = FALSE
    /\ writes = 0
    /\ rejections = 0
    /\ FnIdle
    /\ StdinIdle
    /\ FirstRun

SpecLoad == InitLoad /\ [][Load]_vars

\* The position of the first '=' of a line that has one.
FirstEquals(line) ==
    CHOOSE i \in 1..Len(line) :
        line[i] = 61 /\ \A j \in 1..(i - 1) : line[j] # 61

\* A line that makes an entry: not blank after trimming, not starting with
\* '#', and holding an '='.
IsRecordLine(line) ==
    /\ TrimSpace(line) # <<>>
    /\ line[1] # 35
    /\ \E i \in 1..Len(line) : line[i] = 61

RecordKey(line) == TrimSpace(SubSeq(line, 1, FirstEquals(line) - 1))
RecordValue(line) == TrimSpace(SubSeq(line, FirstEquals(line) + 1, Len(line)))

\* The mapping the claim describes for the file contents data: the keys of
\* the record lines, each with the value of the last record line for it.
MappingOfRecords(data) ==
    LET recs == { p \in LineStarts(data) : IsRecordLine(LineAt(data, p)) }
        keys == { RecordKey(LineAt(data, p)) : p \in recs }
        last(k) == CHOOSE p \in recs :
                      /\ RecordKey(LineAt(data, p)) = k
                      /\ \A q \in recs :
                            RecordKey(LineAt(data, q)) = k => q <= p
    IN  [k \in keys |-> RecordValue(LineAt(data, last(k)))]

\* C13: a load that succeeds returns the mapping of the file's record lines
\* (blank lines, lines starting with '#' and lines without '=' skipped, the
\* line split at its first '=', key and value trimmed, the last line for a
\* key winning) and leaves the contents alone; an absent file exists
\* afterwards, is empty and gives the empty mapping.
C13_LoadMapping ==
    pc = "Decide" =>
        /\ err = "nil"
        /\ loaded = MappingOfRecords(file0)
        /\ envMap = loaded
        /\ fileExists /\ file = file0
        /\ ~file0Exists => (file = <<>> /\ loaded = EmptyMap)

\* The line read, without its line terminator (LF or CR LF).
WithoutTerminator(line) ==
    IF Len(line) > 0 /\ line[Len(line)] = 10
    THEN DropCR(SubSeq(line, 1, Len(line) - 1))
    ELSE line

\* Attempt i was taken as a match: it ended the loop and the run went on to
\* the update.
AttemptMatched(i) ==
    /\ i = Len(entered)
    /\ pc = "Update" \/ (pc = "Exit" /\ updated)

\* C14 (as amended): an attempt is a match exactly when the line read, with
\* leading and trailing white space trimmed off, equals the current value
\* code point for code point; letter case is not folded.
C14_MatchIsTrimmedEquality ==
    \A i \in 1..Len(entered) :
        AttemptMatched(i) <=> TrimSpace(entered[i]) = currentValue

\* C14 as stated: an attempt is a match exactly when the line read, without
\* its line terminator and otherwise untouched, equals the current value.
C14_MatchIsLiteralEquality ==
    \A i \in 1..Len(entered) :
        AttemptMatched(i) <=> WithoutTerminator(entered[i]) = currentValue

\* C14 witness: for the current value "v" the attempt "V" was refused and the
\* attempt " v " was taken as a match.
C14_Witness ==
    /\ pc = "Exit" /\ updated /\ currentValue = <<118>>
    /\ entered = << <<86, 10>>, <<32, 118, 32, 10>> >>

\* formatAndValidateKey returns an error for the raw key main() read.
KeyRejected == formatAndValidateKey(originalKeyInput).err # "nil"

\* C18: while the raw key read is one formatAndValidateKey rejects, the run
\* is at the key prompt, at the formatting step or has ended with
\* InvalidCharacters; the file is neither created nor changed, nothing was
\* loaded from it or written to it, and no value, intent or attempt line was
\* read.  An InvalidCharacters error is set only by such a rejection.
C18_RejectedKeyNoEffect ==
    /\ KeyRejected =>
          /\ pc \in {"PromptKey", "FormatKey", "Exit"}
          /\ pc = "Exit" => err = "InvalidCharacters"
          /\ fileExists = file0Exists /\ file = file0
          /\ writes = 0
          /\ loaded = EmptyMap /\ envMap = EmptyMap
          /\ value = <<>> /\ rejections = 0
          /\ confirm = NoLine /\ entered = <<>>
          /\ ~added /\ ~updated
    /\ err = "InvalidCharacters" => (KeyRejected /\ pc = "Exit")

\* C18 witness: the raw key "1" was rejected in a directory without a .env
\* file, and there is still none.
C18_Witness ==
    /\ pc = "Exit" /\ err = "InvalidCharacters"
    /\ originalKeyInput = <<49>>
    /\ ~file0Exists /\ ~fileExists

---------------------------------------------------------------------------
(* Further properties of formatAndValidateKey.                             *)

\* C19: for every raw key formatAndValidateKey accepts with the result K,
\* formatAndValidateKey(K) is accepted too and returns K.
C19_NormalizeIdempotent ==
    fnPc = "again" =>
        /\ fnOut.again.err = "nil"
        /\ fnOut.again.key = fnOut.key

\* C19 witness: "key" gave "KEY_KEY", and "KEY_KEY" gave "KEY_KEY" again.
C19_Witness ==
    /\ fnPc = "again"
    /\ fnIn = <<107, 101, 121>>
    /\ fnOut.key = <<75, 69, 89>> \o KeySuffix
    /\ fnOut.again.key = fnOut.key

---------------------------------------------------------------------------
(* SpecInput: one run of main() with its standard input.  Every prompt     *)
(* function wraps os.Stdin in a bufio.Reader of its own (main.go:41, 90).  *)
(* ReadString('\n') returns a line the reader holds, and otherwise fills   *)
(* the reader's buffer with Reads of os.Stdin until a line feed or the end *)
(* of input has come.  A Read hands over what is there when it is made:    *)
(* one line from a terminal, any part of what has been written so far from *)
(* a pipe, so the last Read may bring bytes beyond the line feed.  What a  *)
(* reader holds when its prompt function returns goes away with it.        *)

\* The lines written to standard input, as bytes: "a", "yes" and "я" (UTF-8
\* D1 8F), each ended by a line feed.
InputLines == { <<97, 10>>, <<121, 101, 115, 10>>, <<209, 143, 10>> }

\* The sequences of at most n of these lines.
RECURSIVE InputsOf(_)
InputsOf(n) ==
    IF n = 0 THEN { <<>> }
    ELSE LET shorter == InputsOf(n - 1)
         IN  shorter \cup { Append(q, l) : q \in shorter, l \in InputLines }

\* The bytes of the lines, one after the other.
RECURSIVE Concat(_)
Concat(lines) ==
    IF lines = <<>> THEN <<>> ELSE Head(lines) \o Concat(Tail(lines))

\* bufio.NewReader(os.Stdin): a reader that holds nothing.
NewReader == <<>>

\* The size of the buffer of bufio.NewReader (bufio's defaultBufSize): the
\* most one Read of os.Stdin can bring.
DefaultBufSize == 4096

\* reader.ReadString('\n') on a reader holding buf: the outcomes it may
\* have, each the line returned (with its line feed), what the reader holds
\* afterwards and what is left in standard input.  A line the reader holds
\* is returned without a Read.  Otherwise the reader reads until the line
\* feed has come, and its last Read may have brought any of the bytes
\* written after it.  At end of input what is there is returned, the empty
\* line when nothing is (the error is ignored, main.go:44, 92, 103).
ReadString(buf) ==
    LET held == IndexRune(buf, 10)
        nl == IndexRune(stdin, 10)
    IN  IF held > 0
        THEN { [line |-> SubSeq(buf, 1, held),
                rbuf |-> SubSeq(buf, held + 1, Len(buf)),
                stdin |-> stdin] }
        ELSE IF nl = 0
        THEN { [line |-> buf \o stdin, rbuf |-> <<>>, stdin |-> <<>>] }
        ELSE { [line |-> buf \o SubSeq(stdin, 1, nl),
                rbuf |-> SubSeq(stdin, nl + 1, k),
                stdin |-> SubSeq(stdin, k + 1, Len(stdin))] :
               k \in { j \in nl..Len(stdin) : j - nl < DefaultBufSize } }

\* The effect of the read r on standard input and on the reader.
Deliver(r) ==
    /\ stdin' = r.stdin
    /\ rbuf' = r.rbuf
    /\ consumed' = Append(consumed, r.line)
    /\ UNCHANGED stdin0

\* The .env file of SpecInput when there is one: A_KEY=a and YES_KEY= (an
\* empty value), the keys the lines "a" and "yes" are normalised to.
InputFile ==
    <<65>> \o KeySuffix \o <<61, 97, 10>> \o <<89, 69, 83>> \o KeySuffix \o <<61, 10>>

InitInput ==
    /\ pc = "PromptKey"
    /\ fileExists \in BOOLEAN
    /\ file = (IF fileExists THEN InputFile ELSE <<>>)
    /\ file0Exists = fileExists
    /\ file0 = file
    /\ originalKeyInput = <<>>
    /\ formattedKey = <<>>
    /\ value = <<>>
    /\ err = "nil"
    /\ loaded = EmptyMap
    /\ envMap = EmptyMap
    /\ currentValue = <<>>
    /\ confirm = NoLine
    /\ entered = <<>>
    /\ attempts = 0
    /\ added = FALSE
    /\ updated = FALSE
    /\ writes = 0
    /\ rejections = 0
    /\ FnIdle
    /\ FirstRun
    /\ stdin0 \in InputsOf(MaxInputLines)
    /\ stdin = Concat(stdin0)
    /\ rbuf = <<>>
    /\ consumed = <<>>

\* main.go:142 with promptValidInput (40-46): a new reader, one line read.
PromptKeyStdin ==
    \E r \in ReadString(NewReader) :
        \E line \in { DecodeString(r.line) } :
            PromptKeyLine(line) /\ Deliver(r)

\* main.go:153 with promptValidInput (40-53): a new reader when the prompt
\* function is entered, the same reader when it asks again.
PromptValueStdin ==
    \E r \in ReadString(IF rejections = 0 THEN NewReader ELSE rbuf) :
        \E line \in { DecodeString(r.line) } :
            PromptValueLine(line) /\ Deliver(r)

\* promptOverwriteConfirmation (89-93): a new reader, the intent line read.
ConfirmIntentStdin ==
    \E r \in ReadString(NewReader) :
        \E line \in { DecodeString(r.line) } :
            ConfirmIntentLine(line) /\ Deliver(r)

\* promptOverwriteConfirmation (101-104): an attempt read from the reader
\* that read the intent line.
ConfirmValueStdin ==
    \E r \in ReadString(rbuf) :
        \E line \in { DecodeString(r.line) } :
            ConfirmValueLine(line) /\ Deliver(r)

NextInput ==
    \/ PromptKeyStdin
    \/ FormatKey
    \/ PromptValueStdin
    \/ Load
    \/ InsertAndCommit
    \/ ConfirmIntentStdin
    \/ ConfirmValueStdin
    \/ ConfirmExhausted
    \/ UpdateAndCommit

SpecInput == InitInput /\ [][NextInput]_vars

\* Every step of main() that can be taken is taken: reads and file
\* operations return.
SpecInputFair == SpecInput /\ WF_vars(NextInput)

\* C16: the lines the prompts have read are the lines standard input
\* delivered, in order and without a gap: read number i returned line number
\* i, and the empty line of end of input once the lines were used up.
C16_LinesConsumedInOrder ==
    \A i \in 1..Len(consumed) :
        consumed[i] = (IF i <= Len(stdin0) THEN stdin0[i] ELSE <<>>)

\* The reads of standard input promptOverwriteConfirmation has made.
ControllerReads == (IF confirm = NoLine THEN 0 ELSE 1) + Len(entered)

\* C17: from the call of AddOrUpdateEnvVarSecure on the run always reaches
\* its end, after at most 1 + maxAttempts = 4 reads of standard input in
\* promptOverwriteConfirmation; a read at end of input returns the empty
\* line and counts like any other.
C17_ControllerTerminates ==
    /\ [](ControllerReads <= 1 + maxAttempts)
    /\ [](\A i \in 1..Len(consumed) : i > Len(stdin0) => consumed[i] = <<>>)
    /\ (pc = "Load") ~> (pc = "Exit")

\* C17 witness: standard input ended after "yes"; the three reads at end of
\* input were taken as empty attempts and the run ended after 4 reads in
\* promptOverwriteConfirmation, the value not updated.
C17_Witness ==
    /\ pc = "Exit"
    /\ Len(stdin0) = 3
    /\ confirm = <<121, 101, 115, 10>>
    /\ entered = << <<>>, <<>>, <<>> >>
    /\ consumed = stdin0 \o << <<>>, <<>>, <<>> >>
    /\ ControllerReads = 4
    /\ ~updated /\ err = "nil"

---------------------------------------------------------------------------
(* SpecRuns: main() invoked again and again on the same .env file, which   *)
(* nothing else modifies.  A new invocation starts from the file the       *)
(* previous one left; its variables are those of a new process.  The       *)
(* number of invocations is not bounded as long as every save succeeds;    *)
(* after an invocation whose save failed one more invocation is followed.  *)

InitRuns ==
    /\ pc = "PromptKey"
    /\ fileExists \in BOOLEAN
    /\ file = <<>>
    /\ file0Exists = fileExists
    /\ file0 = file
    /\ originalKeyInput = <<>>
    /\ formattedKey = <<>>
    /\ value = <<>>
    /\ err = "nil"
    /\ loaded = EmptyMap
    /\ envMap = EmptyMap
    /\ currentValue = <<>>
    /\ confirm = NoLine
    /\ entered = <<>>
    /\ attempts = 0
    /\ added = FALSE
    /\ updated = FALSE
    /\ writes = 0
    /\ rejections = 0
    /\ FnIdle
    /\ StdinIdle
    /\ FirstRun

\* The run of main() has ended and the program is started again.  What the
\* ended run saved, or that its save failed, is remembered.
NextInvocation ==
    /\ pc = "Exit"
    /\ ~saveFailed
    /\ lastWritten' = (IF (added \/ updated) /\ err = "nil"
                       THEN MapPut(lastWritten, formattedKey, value)
                       ELSE lastWritten)
    /\ saveFailed' = (saveFailed \/ err = "IOError:save")
    /\ pc' = "PromptKey"
    /\ file0Exists' = fileExists
    /\ file0' = file
    /\ originalKeyInput' = <<>>
    /\ formattedKey' = <<>>
    /\ value' = <<>>
    /\ err' = "nil"
    /\ loaded' = EmptyMap
    /\ envMap' = EmptyMap
    /\ currentValue' = <<>>
    /\ confirm' = NoLine
    /\ entered' = <<>>
    /\ attempts' = 0
    /\ added' = FALSE
    /\ updated' = FALSE
    /\ writes' = 0
    /\ rejections' = 0
    /\ UNCHANGED <<fileExists, file, fnVars, stdinVars>>

NextRuns == Next \/ NextInvocation

SpecRuns == InitRuns /\ [][NextRuns]_vars

\* An earlier invocation yielded Added or Updated for the canonical key of
\* this one.
KeyWrittenBefore == formattedKey \in DOMAIN lastWritten

\* What C15 says of an invocation whose key was written before: it does not
\* report added, the loaded store holds the key with the value last written
\* for it, and that is the value the attempts are compared with.
CollisionDetected ==
    /\ ~added
    /\ pc \in {"Decide", "ConfirmValue", "Update"}
          \/ (pc = "Exit" /\ err # "IOError:load")
        => /\ formattedKey \in DOMAIN loaded
           /\ loaded[formattedKey] = lastWritten[formattedKey]
    /\ pc \in {"ConfirmValue", "Update"}
        => currentValue = lastWritten[formattedKey]
    /\ \A i \in 1..Len(entered) :
          AttemptMatched(i) <=> TrimSpace(entered[i]) = lastWritten[formattedKey]

\* C15: when an earlier invocation yielded Added or Updated for the canonical
\* key of this one, this invocation never reports added, finds the key in
\* the store it loads and compares the attempts with the value last written.
C15_CollisionAcrossRuns ==
    KeyWrittenBefore => CollisionDetected

====
